---- MODULE Spec2Model ----
(***************************************************************************)
(* SourceCodeConverter of totxt.py: one converter object, the repository   *)
(* trees it is pointed at, and convert_repository as a state machine       *)
(* (one step per os.walk directory and one per file of the inner loop).    *)
(*                                                                         *)
(* Text is modelled over a token alphabet: a file name, an ignore-file     *)
(* line and a glob pattern are sequences of tokens ("*", ".", "/", " ",   *)
(* "#" and letter runs such as "log").  A path is a sequence of names,     *)
(* relative to the repository root.                                        *)
(***************************************************************************)
EXTENDS Integers, Sequences, FiniteSets, TLC

\* ------------------------------------------------------------- bounds
MaxKB == 2
MaxFaults == 1
MaxCalls == 2

\* ---------------------------------------------------- program constants
KB == 1024
SniffLen == 1024

\* ------------------------------------------------------------ the names
GitName == <<".", "git">>
SrcName == <<"src">>
BuildName == <<"build">>
ATxtName == <<"a", ".", "txt">>
DebugLogName == <<"debug", ".", "log">>
ErrLogName == <<"err", ".", "log">>
GenLogName == <<"gen", ".", "log">>
ConfigName == <<"config">>
GitignoreName == <<".", "gitignore">>
OutputName == <<"repo_output", ".", "txt">>

\* self.exclude_dirs
exclude_dirs ==
    { <<".", "git">>, <<"node_modules">>, <<".", "venv">>, <<"venv">>,
      <<"__pycache__">>, <<"dist">>, <<"build">> }

Range(s) == { s[i] : i \in DOMAIN s }

\* ------------------------------------------------- the repository trees
\* A repository is the fixed tree below plus two choices: its ignore file
\* (absent, empty, or one of two sets of lines) and whether the output path
\* lies in the repository root.
IgnoreKinds == { "none", "empty", "good", "bad" }

Repos == [ ignore : IgnoreKinds, outInside : BOOLEAN ]

\* The lines of the repository's .gitignore, as read by "for line in f".
IgnoreLines(kind) ==
    CASE kind = "good" -> << <<" ">>, <<"#", "x">>, <<" ", "*", ".", "log", " ">> >>
      [] kind = "bad"  -> << <<"*", ".", "log">>, <<".">> >>
      [] OTHER         -> << >>

HasIgnoreFile(r) == r.ignore # "none"

\* os.walk's view of one directory: its subdirectory names and file names.
ListDir(r, d) ==
    CASE d = << >> ->
            [ dirs  |-> << GitName, SrcName >>,
              files |-> << ErrLogName >>
                        \o (IF HasIgnoreFile(r) THEN << GitignoreName >> ELSE << >>)
                        \o << ATxtName, BuildName >>
                        \o (IF r.outInside THEN << OutputName >> ELSE << >>) ]
      [] d = << SrcName >> ->
            [ dirs |-> << BuildName >>, files |-> << DebugLogName >> ]
      [] d = << SrcName, BuildName >> ->
            [ dirs |-> << >>, files |-> << GenLogName >> ]
      [] d = << GitName >> ->
            [ dirs |-> << >>, files |-> << ConfigName >> ]
      [] OTHER -> [ dirs |-> << >>, files |-> << >> ]

AllDirs == { << >>, << SrcName >>, << SrcName, BuildName >>, << GitName >> }

\* Every regular file of repository r, as a root-relative path.
AllFiles(r) ==
    UNION { { Append(d, ListDir(r, d).files[i]) : i \in DOMAIN ListDir(r, d).files }
            : d \in AllDirs }

\* The files whose bytes the initial state chooses.
VaryingFiles == { << ATxtName >>, << BuildName >> }

\* ------------------------------------------------------ pure functions
\* str.strip() on a line: leading and trailing whitespace tokens removed.
RECURSIVE LStrip(_)
LStrip(s) == IF s # << >> /\ Head(s) = " " THEN LStrip(Tail(s)) ELSE s

RECURSIVE RStrip(_)
RStrip(s) ==
    IF s # << >> /\ s[Len(s)] = " " THEN RStrip(SubSeq(s, 1, Len(s) - 1)) ELSE s

Strip(s) == RStrip(LStrip(s))

\* "if stripped and not stripped.startswith('#')"
IsPatternLine(stripped) == stripped # << >> /\ Head(stripped) # "#"

\* set.add on a set kept as its iteration order: a new element lands at any
\* position, an element already present changes nothing.
SetAdd(order, x) ==
    IF x \in Range(order)
    THEN { order }
    ELSE { SubSeq(order, 1, i) \o << x >> \o SubSeq(order, i + 1, Len(order))
           : i \in 0..Len(order) }

RECURSIVE AddLines(_, _)
AddLines(orders, lines) ==
    IF lines = << >>
    THEN orders
    ELSE LET stripped == Strip(Head(lines))
             next == IF IsPatternLine(stripped)
                     THEN UNION { SetAdd(o, stripped) : o \in orders }
                     ELSE orders
         IN  AddLines(next, Tail(lines))

\* A plausible slip: the is_file() test dropped, so a missing file raises.
load_gitignore_nocheck(patterns, r, fault) ==
    IF fault = "load" \/ ~HasIgnoreFile(r)
    THEN { [ raised |-> TRUE, patterns |-> patterns ] }
    ELSE { [ raised |-> FALSE, patterns |-> p ]
           : p \in AddLines({ patterns }, IgnoreLines(r.ignore)) }

\* load_gitignore: the possible results, one per iteration order of the set.
\* fault = "load": open() or the read of the ignore file raises.
load_gitignore(patterns, r, fault) ==
    IF ~HasIgnoreFile(r)
    THEN { [ raised |-> FALSE, patterns |-> patterns ] }
    ELSE IF fault = "load"
    THEN { [ raised |-> TRUE, patterns |-> patterns ] }
    ELSE { [ raised |-> FALSE, patterns |-> p ]
           : p \in AddLines({ patterns }, IgnoreLines(r.ignore)) }

\* fnmatch.fnmatchcase of one path component against one pattern component.
RECURSIVE FnMatch(_, _)
FnMatch(name, pat) ==
    IF pat = << >>
    THEN name = << >>
    ELSE IF Head(pat) = "*"
    THEN FnMatch(name, Tail(pat)) \/ (name # << >> /\ FnMatch(Tail(name), pat))
    ELSE name # << >> /\ Head(name) = Head(pat) /\ FnMatch(Tail(name), Tail(pat))

\* A pattern cut at "/" into components.
RECURSIVE SplitParts(_, _)
SplitParts(s, acc) ==
    IF s = << >>
    THEN << acc >>
    ELSE IF Head(s) = "/"
    THEN << acc >> \o SplitParts(Tail(s), << >>)
    ELSE SplitParts(Tail(s), Append(acc, Head(s)))

KeptPart(part) == part # << >> /\ part # << "." >>

\* pathlib's parse of a pattern: empty and "." components are dropped.
PatParts(pattern) == SelectSeq(SplitParts(pattern, << >>), KeptPart)

\* PurePath.match of a root-relative path: "raise" (ValueError, empty
\* pattern), "true" or "false".  A rooted pattern never matches a relative
\* path; otherwise the components are compared from the right.
PathMatch(rel, pattern) ==
    LET pp == PatParts(pattern)
    IN  IF pattern # << >> /\ Head(pattern) = "/" THEN "false"
        ELSE IF pp = << >> THEN "raise"
        ELSE IF Len(pp) > Len(rel) THEN "false"
        ELSE IF \A i \in 1..Len(pp) :
                    FnMatch(rel[Len(rel) - i + 1], pp[Len(pp) - i + 1])
             THEN "true"
             ELSE "false"

\* is_ignored: any() over the patterns in iteration order; it stops at the
\* first match and lets the first exception through.
RECURSIVE is_ignored(_, _)
is_ignored(rel, patterns) ==
    IF patterns = << >>
    THEN "false"
    ELSE LET m == PathMatch(rel, Head(patterns))
         IN  IF m = "false" THEN is_ignored(rel, Tail(patterns)) ELSE m

\* Slips of is_text_file: ">=" for ">", and a sniff one byte short.
is_text_file_ge(attr, limit, fault) ==
    IF fault = "stat" THEN FALSE
    ELSE IF attr.size >= limit THEN FALSE
    ELSE IF \E o \in attr.nuls : o < SniffLen THEN FALSE
    ELSE TRUE

is_text_file_short(attr, limit, fault) ==
    IF fault = "stat" THEN FALSE
    ELSE IF attr.size > limit THEN FALSE
    ELSE IF \E o \in attr.nuls : o < SniffLen - 1 THEN FALSE
    ELSE TRUE

\* is_text_file.  fault = "stat": getsize or open raises, which is logged
\* and answers False.
is_text_file(attr, limit, fault) ==
    IF fault = "stat" THEN FALSE
    ELSE IF attr.size > limit THEN FALSE
    ELSE IF \E o \in attr.nuls : o < SniffLen THEN FALSE
    ELSE TRUE

\* "dirs[:] = [d for d in dirs if d not in self.exclude_dirs]"
NotExcluded(d) == d \notin exclude_dirs

KeepAll(dirs) == dirs

Prune(dirs) == SelectSeq(dirs, NotExcluded)

\* ------------------------------------------------- the output document
Chunk(k, path, text) == [ k |-> k, path |-> path, text |-> text ]

\* The two header writes of lines 146-147.
Header == << Chunk("repo", << >>, ""), Chunk("rule", << >>, "") >>

\* A slip: the counter advanced before the writes instead of after them.
WriteSection_countfirst(doc, count, rel, fault) ==
    LET sect == Chunk("sect", rel, "")
        dash == Chunk("dash", rel, "")
    IN  CASE fault = "w157" -> [ doc |-> doc, count |-> count + 1, read |-> FALSE ]
          [] fault = "w158" -> [ doc |-> doc \o << sect >>, count |-> count + 1, read |-> FALSE ]
          [] fault = "w160" -> [ doc |-> doc \o << sect, dash >>, count |-> count + 1, read |-> TRUE ]
          [] fault = "read" -> [ doc |-> doc \o << sect, dash, Chunk("body", rel, "") >>,
                                 count |-> count + 1, read |-> TRUE ]
          [] OTHER -> [ doc |-> doc \o << sect, dash, Chunk("body", rel, "decoded") >>,
                        count |-> count + 1, read |-> TRUE ]

\* Lines 155-163, the section of one accepted file.  A write that raises
\* appends nothing and ends the section (the exception is logged); a failed
\* read yields the empty string.  read: whether read_source_file was called.
WriteSection(doc, count, rel, fault) ==
    LET sect == Chunk("sect", rel, "")
        dash == Chunk("dash", rel, "")
    IN  CASE fault = "w157" -> [ doc |-> doc, count |-> count, read |-> FALSE ]
          [] fault = "w158" -> [ doc |-> doc \o << sect >>, count |-> count, read |-> FALSE ]
          [] fault = "w160" -> [ doc |-> doc \o << sect, dash >>, count |-> count, read |-> TRUE ]
          [] fault = "read" -> [ doc |-> doc \o << sect, dash, Chunk("body", rel, "") >>,
                                 count |-> count + 1, read |-> TRUE ]
          [] OTHER -> [ doc |-> doc \o << sect, dash, Chunk("body", rel, "decoded") >>,
                        count |-> count + 1, read |-> TRUE ]

\* ---------------------------------------------------------------- state
VARIABLES
    max_size,            \* the constructor's max_file_size argument, in KB
    max_file_size,       \* self.max_file_size, in bytes
    gitignore_patterns,  \* self.gitignore_patterns, in iteration order
    files,               \* the bytes of the varying files: size and null offsets
    pc,                  \* "idle", "walk", "ok", "error" or "raised"
    repo,                \* the repository of the current call
    todo,                \* os.walk: the directories still to be listed
    cur_files,           \* the files of the current directory still to visit
    outfile,             \* what has been written to the output document
    processed_files,     \* the counter of line 149
    console,             \* the processed-file counts printed
    checked,             \* the paths is_text_file was called on
    reads,               \* the paths read_source_file was called on
    faulted,             \* the I/O faults of this call: <<path, kind>>
    faultsLeft,          \* how many more I/O faults the environment may raise
    callsLeft,           \* how many more calls the caller makes
    history              \* one record per finished call

vars == << max_size, max_file_size, gitignore_patterns, files, pc, repo, todo,
           cur_files, outfile, processed_files, console, checked, reads,
           faulted, faultsLeft, callsLeft, history >>

\* The bytes a file may hold, around the size limit and the sniff length.
SizesFor(limit) == { s \in { 0, limit - 1, limit, limit + 1 } : s >= 0 }

NulsFor(size) ==
    { ns \in { { }, { 0 }, { SniffLen - 1 }, { SniffLen } } : \A o \in ns : o < size }

AttrsFor(limit) ==
    UNION { { [ size |-> s, nuls |-> ns ] : ns \in NulsFor(s) } : s \in SizesFor(limit) }

PlainAttrsFor(limit) ==
    { [ size |-> s, nuls |-> { } ] : s \in { 0, limit + 1 } \cap Nat }

\* The ignore file's size in bytes: its tokens and one newline per line.
RECURSIVE LinesSize(_)
LinesSize(lines) ==
    IF lines = << >> THEN 0 ELSE Len(Head(lines)) + 1 + LinesSize(Tail(lines))

\* What getsize and read(1024) find for a file of repository r.  The output
\* file, still buffered when the walk reaches it, is empty on disk.
FileAttr(r, rel) ==
    IF rel \in VaryingFiles THEN files[rel]
    ELSE IF rel = << GitignoreName >>
    THEN [ size |-> LinesSize(IgnoreLines(r.ignore)), nuls |-> { } ]
    ELSE [ size |-> 0, nuls |-> { } ]

NoRepo == [ ignore |-> "none", outInside |-> FALSE ]

\* SourceCodeConverter(max_file_size=max_size), before any call.
Construct(calls, faults) ==
    /\ max_size \in (0 - 1)..MaxKB
    /\ max_file_size = max_size * KB
    /\ gitignore_patterns = << >>
    /\ files \in [ VaryingFiles -> AttrsFor(max_file_size) ]
    /\ files[<< BuildName >>] \in PlainAttrsFor(max_file_size)
    /\ pc = "idle"
    /\ repo = NoRepo
    /\ todo = << >>
    /\ cur_files = << >>
    /\ outfile = << >>
    /\ processed_files = 0
    /\ console = << >>
    /\ checked = { }
    /\ reads = { }
    /\ faulted = { }
    /\ faultsLeft = faults
    /\ callsLeft = calls

\* main(): one converter, one call, on a file system that may fail.
Init == Construct(1, MaxFaults) /\ history = << >>

\* A caller that reuses one converter for several calls; no I/O faults.
InitSeq == Construct(MaxCalls, 0) /\ history = << >>

Faults(kinds) == { "none" } \cup (IF faultsLeft > 0 THEN kinds ELSE { })

Spend(fault) == IF fault = "none" THEN faultsLeft ELSE faultsLeft - 1

RunRecord(status, r, patterns, doc, out, seen, fl) ==
    [ status |-> status, repo |-> r, patterns |-> patterns, outfile |-> doc,
      console |-> out, checked |-> seen, faulted |-> fl ]

\* convert_repository up to the loop: load_gitignore (outside every try),
\* open of the output (inside the outer try) and the header.
Call ==
    /\ pc \in { "idle", "ok", "error" }
    /\ callsLeft > 0
    /\ \E r \in Repos, fault \in Faults({ "load", "open" }) :
         \E res \in load_gitignore(gitignore_patterns, r, fault) :
            /\ fault = "load" => HasIgnoreFile(r)
            /\ repo' = r
            /\ callsLeft' = callsLeft - 1
            /\ faultsLeft' = Spend(fault)
            /\ faulted' = IF fault = "none" THEN { } ELSE { << << >>, fault >> }
            /\ gitignore_patterns' = res.patterns
            /\ processed_files' = 0
            /\ console' = << >>
            /\ checked' = { }
            /\ reads' = { }
            /\ cur_files' = << >>
            /\ IF res.raised
               THEN /\ pc' = "raised"
                    /\ outfile' = << >>
                    /\ todo' = << >>
                    /\ history' = Append(history,
                          RunRecord("raised", r, res.patterns, << >>, << >>, { }, faulted'))
               ELSE IF fault = "open"
               THEN /\ pc' = "error"
                    /\ outfile' = << >>
                    /\ todo' = << >>
                    /\ history' = Append(history,
                          RunRecord("error", r, res.patterns, << >>, << >>, { }, faulted'))
               ELSE /\ pc' = "walk"
                    /\ outfile' = Header
                    /\ todo' = << << >> >>
                    /\ history' = history
    /\ UNCHANGED << max_size, max_file_size, files >>

\* One iteration of "for root, dirs, files in os.walk(repo_path)" up to the
\* inner loop: the next directory is listed and its subdirectories pruned.
WalkDir ==
    /\ pc = "walk"
    /\ cur_files = << >>
    /\ todo # << >>
    /\ LET d == Head(todo)
           l == ListDir(repo, d)
           kept == Prune(l.dirs)
       IN  /\ cur_files' = [ i \in DOMAIN l.files |-> Append(d, l.files[i]) ]
           /\ todo' = [ i \in DOMAIN kept |-> Append(d, kept[i]) ] \o Tail(todo)
    /\ UNCHANGED << max_size, max_file_size, gitignore_patterns, files, pc, repo,
                    outfile, processed_files, console, checked, reads, faulted,
                    faultsLeft, callsLeft, history >>

\* One iteration of "for file in files" (lines 152-163).
VisitFile ==
    /\ pc = "walk"
    /\ cur_files # << >>
    /\ LET rel == Head(cur_files)
           attr == FileAttr(repo, rel)
       IN  \E fault \in Faults({ "stat", "w157", "w158", "w160", "read" }) :
             LET text == is_text_file(attr, max_file_size, fault)
                 ign == IF text THEN is_ignored(rel, gitignore_patterns) ELSE "skipped"
                 w == WriteSection(outfile, processed_files, rel, fault)
             IN  /\ fault \in { "w157", "w158", "w160", "read" } => ign = "false"
                 /\ checked' = checked \cup { rel }
                 /\ faultsLeft' = Spend(fault)
                 /\ faulted' = IF fault = "none" THEN faulted
                               ELSE faulted \cup { << rel, fault >> }
                 /\ cur_files' = Tail(cur_files)
                 /\ IF ign = "raise"
                    THEN \* the ValueError leaves both loops for line 169
                         /\ pc' = "error"
                         /\ history' = Append(history,
                               RunRecord("error", repo, gitignore_patterns, outfile,
                                         console, checked', faulted'))
                         /\ UNCHANGED << outfile, processed_files, reads >>
                    ELSE IF ign = "false"
                    THEN /\ outfile' = w.doc
                         /\ processed_files' = w.count
                         /\ reads' = IF w.read THEN reads \cup { rel } ELSE reads
                         /\ UNCHANGED << pc, history >>
                    ELSE UNCHANGED << pc, history, outfile, processed_files, reads >>
    /\ UNCHANGED << max_size, max_file_size, gitignore_patterns, files, repo, todo,
                    console, callsLeft >>

\* The walk is exhausted: the output is closed and the count printed.
Finish ==
    /\ pc = "walk"
    /\ cur_files = << >>
    /\ todo = << >>
    /\ pc' = "ok"
    /\ console' = << processed_files >>
    /\ history' = Append(history,
          RunRecord("ok", repo, gitignore_patterns, outfile, console', checked, faulted))
    /\ UNCHANGED << max_size, max_file_size, gitignore_patterns, files, repo, todo,
                    cur_files, outfile, processed_files, checked, reads, faulted,
                    faultsLeft, callsLeft >>

Next == Call \/ WalkDir \/ VisitFile \/ Finish

Spec == Init /\ [][Next]_vars

SpecSeq == InitSeq /\ [][Next]_vars

\* ------------------------------------------------------------ the claims
HasSection(doc, rel) == \E i \in DOMAIN doc : doc[i].k = "sect" /\ doc[i].path = rel

\* rel lies below a directory whose name is in the blocklist.
UnderExcludedDir(rel) == \E i \in 1..(Len(rel) - 1) : rel[i] \in exclude_dirs

\* Some component of rel, its own name included, is in the blocklist.
HasExcludedComponent(rel) == \E i \in 1..Len(rel) : rel[i] \in exclude_dirs

Untouched(rel) ==
    /\ rel \notin checked
    /\ rel \notin reads
    /\ ~HasSection(outfile, rel)

FaultedOn(rel) == \E f \in faulted : f[1] = rel

SniffedNul(attr) == \E o \in attr.nuls : o < 1024

Count(doc, k) == Cardinality({ i \in DOMAIN doc : doc[i].k = k })

\* C1 (as amended): no file below a directory named in the blocklist is
\* passed to is_text_file or read_source_file, and none gets a section.
C1_PrunedSubtreesUntouched ==
    \A rel \in AllFiles(repo) : UnderExcludedDir(rel) => Untouched(rel)

\* C1 witness: a walk that finished, visited src/debug.log beside the pruned
\* src/build, and left src/build/gen.log and .git/config alone.
C1_Witness ==
    /\ pc = "ok"
    /\ << SrcName, DebugLogName >> \in checked
    /\ Untouched(<< SrcName, BuildName, GenLogName >>)
    /\ Untouched(<< GitName, ConfigName >>)

\* C1 as written: no file with any blocklisted path component, its own name
\* included, is opened or gets a section.
C1_Original ==
    \A rel \in AllFiles(repo) : HasExcludedComponent(rel) => Untouched(rel)

NotOfGitignore(c) == c.path # << GitignoreName >>

WithoutGitignoreSection(doc) == SelectSeq(doc, NotOfGitignore)

\* Two finished calls on the same tree, from the same pattern set, with the
\* output outside the tree: i without an ignore file, j with an empty one.
IgnorePair(i, j) ==
    /\ history[i].repo.ignore = "none"
    /\ history[j].repo.ignore = "empty"
    /\ ~history[i].repo.outInside
    /\ ~history[j].repo.outInside
    /\ history[i].patterns = history[j].patterns

\* C2 (as amended): the run with an empty ignore file writes the document of
\* the run without one, plus at most a section for the ignore file itself.
C2_SameButForIgnoreFile ==
    \A i, j \in DOMAIN history :
        IgnorePair(i, j) =>
            history[i].outfile = WithoutGitignoreSection(history[j].outfile)

\* C2 witness: such a pair, where the ignore file did get its section and
\* a.txt is in both documents.
C2_Witness ==
    \E i, j \in DOMAIN history :
        /\ IgnorePair(i, j)
        /\ HasSection(history[j].outfile, << GitignoreName >>)
        /\ HasSection(history[i].outfile, << ATxtName >>)
        /\ HasSection(history[j].outfile, << ATxtName >>)

\* C2 as written: the two documents are identical.
C2_Original ==
    \A i, j \in DOMAIN history :
        IgnorePair(i, j) => history[i].outfile = history[j].outfile

\* C3 as written: once the output is open, a failure on one file never
\* stops the traversal, so a call that has returned has classified every
\* file outside the pruned directories.
C3_TraversalNeverStops ==
    (pc \in { "ok", "error" } /\ outfile # << >>) =>
        \A rel \in AllFiles(repo) : ~UnderExcludedDir(rel) => rel \in checked

\* C4 as written: convert_repository never lets an exception reach its
\* caller.
C4_NeverRaises == pc # "raised"

\* C5: a file that was visited without an I/O fault, has no null byte in
\* its first 1024 bytes, is outside the pruned directories and is not
\* ignored has a section exactly when its size is at most max_size * 1024.
C5_SizeThreshold ==
    \A rel \in checked :
        ( /\ ~FaultedOn(rel)
          /\ ~SniffedNul(FileAttr(repo, rel))
          /\ ~UnderExcludedDir(rel)
          /\ is_ignored(rel, gitignore_patterns) = "false" )
        => ( HasSection(outfile, rel) <=> FileAttr(repo, rel).size <= max_size * 1024 )

\* C5 witness: a.txt of exactly max_size * 1024 bytes is in the document and
\* the file build, one byte larger, was visited and is not.
C5_Witness ==
    /\ pc = "ok"
    /\ max_size >= 1
    /\ files[<< ATxtName >>] = [ size |-> max_size * 1024, nuls |-> { } ]
    /\ files[<< BuildName >>].size = max_size * 1024 + 1
    /\ HasSection(outfile, << ATxtName >>)
    /\ << BuildName >> \in checked
    /\ ~HasSection(outfile, << BuildName >>)

\* C6: a visited file with a null byte among its first 1024 bytes has no
\* section; one whose null bytes all lie at offset 1024 or later, within the
\* size limit, not ignored and visited without an I/O fault, has one.
C6_NullByteSniff ==
    \A rel \in checked :
        LET attr == FileAttr(repo, rel)
        IN  /\ SniffedNul(attr) => ~HasSection(outfile, rel)
            /\ ( /\ attr.nuls # { }
                 /\ \A o \in attr.nuls : o >= 1024
                 /\ attr.size <= max_file_size
                 /\ ~FaultedOn(rel)
                 /\ is_ignored(rel, gitignore_patterns) = "false" )
               => HasSection(outfile, rel)

\* C6 witness: a.txt, within the size limit, with its only null byte at
\* offset 1023, was visited in a finished walk and has no section.
C6_Witness ==
    /\ pc = "ok"
    /\ files[<< ATxtName >>].nuls = { 1023 }
    /\ files[<< ATxtName >>].size <= max_file_size
    /\ << ATxtName >> \in checked
    /\ ~HasSection(outfile, << ATxtName >>)

Matches(rel, pattern) == PathMatch(rel, pattern) = "true"

\* C7 as written: a file that passes the size and binary checks, visited
\* without an I/O fault, has no section if it matches a loaded pattern and
\* has one if it matches none.
C7_Original ==
    \A rel \in checked :
        ( is_text_file(FileAttr(repo, rel), max_file_size, "none") /\ ~FaultedOn(rel) )
        => ( HasSection(outfile, rel)
             <=> ~\E p \in Range(gitignore_patterns) : Matches(rel, p) )

IsLateWriteFault(f) == f[2] \in { "w158", "w160" }

\* C8 (as amended): the count printed is the number of sections written in
\* full; the delimiter lines exceed it by the sections whose write failed
\* after the delimiter line.
C8_CountsCompleteSections ==
    pc = "ok" =>
        /\ console = << Count(outfile, "body") >>
        /\ Count(outfile, "sect")
             = Count(outfile, "body") + Cardinality({ f \in faulted : IsLateWriteFault(f) })

\* C8 witness: a finished run with one section written in full and another
\* whose content write failed.
C8_Witness ==
    /\ pc = "ok"
    /\ \E f \in faulted : f[2] = "w160"
    /\ Count(outfile, "body") >= 1

\* C8 as written: the count printed is the number of delimiter lines.
C8_Original == pc = "ok" => console = << Count(outfile, "sect") >>

\* The non-empty, non-comment lines of the repository's ignore file.
ExpectedPatterns(r) ==
    { Strip(l) : l \in { x \in Range(IgnoreLines(r.ignore)) : IsPatternLine(Strip(x)) } }

\* C9 as written: in every call the pattern set is that of the call's own
\* repository.
C9_PatternsOfThisRepository ==
    pc \in { "walk", "ok", "error" } => Range(gitignore_patterns) = ExpectedPatterns(repo)

\* C10 as written: the document has no section for the output file.
C10_NoSectionForOutput == ~HasSection(outfile, << OutputName >>)

====
